---- MODULE Spec2Model ----
(***************************************************************************)
(* A model of processing/spark/driver.py, the Spark driver of the          *)
(* subreddit TF-IDF pipeline: the driver script itself (argument parsing,  *)
(* pipeline construction, fit, vocabulary capture, transform, table        *)
(* write), the per-row callback getTopKWords of TopKWords.transform, and   *)
(* the stages the script composes.                                         *)
(*                                                                         *)
(* Sequences are 1-based here and 0-based in the source: vocabulary index  *)
(* i of the source is index i+1 of the model.  The order of indices is the *)
(* same.  TF-IDF scores are floats in the source; wherever only their      *)
(* order and their being zero matter they are naturals here.               *)
(***************************************************************************)
EXTENDS Integers, Sequences, FiniteSets, TLC

VARIABLES
    \* getTopKWords (driver.py:76-80)
    x,              \* the row's tfidf vector, dense over the vocabulary
    k,              \* the k the udf passes: self.nwords
    words,          \* the global vocab the callback closes over
    indices,        \* the local `indices` of getTopKWords
    ret,            \* the callback's return value, None before the call
    \* the driver script (driver.py:39-117)
    pc,             \* the statement the script executes next
    args,           \* parser.parse_args() (line 39)
    df,             \* the rows of df, one per subreddit; {} before line 88
    topkwords,      \* the TopKWords stage (line 97)
    model,          \* the fitted PipelineModel (line 106)
    vocab,          \* the module global vocab (line 109): None while the
                    \* name is unbound, then [value |-> the list]
    captured,       \* the vocab pickled with topkwords_udf (lines 82-84),
                    \* None or [value |-> the list] likewise
    top_words,      \* the top_words column: row -> value, None until computed
    \* the Filterer stage (driver.py:92)
    comments,       \* subreddit -> the body lengths of its comments
    minlength,      \* args.minlength
    filtered,       \* the rows the stage lets through, None before it ran
    \* the CountVectorizer and IDF stages (driver.py:95-96)
    corpus,         \* column swr_tokens: row -> term -> occurrences
    cv,             \* the CountVectorizer's params (line 95)
    cvModel,        \* the fitted CountVectorizerModel, None before the fit
    tf,             \* column tf, None before the transform
    idfModel,       \* the fitted IDFModel, None before the fit
    tfidf,          \* column tfidf, None before the transform
    \* the TopKSubreddits stage (driver.py:99-100)
    norm,           \* the similarity relation: row -> row -> score level
    topksubreddits, \* the stage's params (line 99)
    top_subreddits, \* column top_subreddits, None before the transform
    \* the table write over successive runs of the script (driver.py:114-117)
    run,            \* the run in progress: [filepath |-> args.filepath], or None
    nruns,          \* runs started so far
    tables,         \* the Hive tables: name -> rows
    written         \* per successful run, in order: its logical destination
                    \* and the rows it wrote

topkVars == <<x, k, words, indices, ret>>
driverVars == <<pc, args, df, topkwords, model, vocab, captured, top_words>>
filterVars == <<comments, minlength, filtered>>
tfidfVars == <<corpus, cv, cvModel, tf, idfModel, tfidf>>
simVars == <<norm, topksubreddits, top_subreddits>>
saveVars == <<run, nruns, tables, written>>

vars == <<topkVars, driverVars, filterVars, tfidfVars, simVars, saveVars>>

\* python None, for a value not yet assigned or returned
None == [none |-> TRUE]

----------------------------------------------------------------------------
(* Bounds *)

MaxVocab == 3       \* longest vocabulary
MaxScore == 2       \* highest score level of a tfidf entry
MaxK     == 3       \* |nwords| is at most this
MaxDocs  == 2       \* most rows (subreddits) of a run of the script
MaxDriverVocab == 2 \* longest vocabulary a run of the script fits
MaxComments == 2    \* most comments of one subreddit
MaxCvDocs == 2      \* most rows of the corpus the CountVectorizer is fitted on
MaxGroups == 3      \* most surviving subreddits the similarity stage sees
MaxSim == 2         \* highest level of a similarity score
MaxSubs == 3        \* largest nsubreddits
MaxPathLen == 3     \* longest --filepath, in characters
MaxRuns == 3        \* most runs of the script in a row

TermName == <<"cat", "dog", "fish", "bird", "ant", "emu">>
Terms == {TermName[i] : i \in 1..MaxVocab}

----------------------------------------------------------------------------
(* Helpers *)

Min(a, b) == IF a <= b THEN a ELSE b
Max(a, b) == IF a >= b THEN a ELSE b

Range(s) == {s[i] : i \in DOMAIN s}

\* the sequences of length n over S without repetition
InjectiveSeqs(S, n) == {s \in [1..n -> S] : \A i, j \in 1..n : s[i] = s[j] => i = j}

----------------------------------------------------------------------------
(* getTopKWords: tfidfs.argsort()[-k:][::-1]                               *)

\* numpy ndarray.argsort() with the default kind ("quicksort", not a stable
\* sort): some permutation of the indices that sorts the array ascending.
\* Which one, among equal entries, numpy leaves to the build.
Argsorts(a) ==
    {p \in InjectiveSeqs(DOMAIN a, Len(a)) :
        \A i, j \in 1..Len(a) : i < j => a[p[i]] <= a[p[j]]}

\* python s[-k:] : start = -k; a negative start counts from the end (and is
\* clipped at 0), -0 is 0 (the whole sequence), a positive start is clipped
\* at the length.
\* (s[:k], the k lowest, in its place)
TailSliceFirstK(s, n) ==
    SubSeq(s, 1, IF n >= 0 THEN Min(n, Len(s)) ELSE Max(Len(s) + n, 0))

TailSlice(s, n) ==
    LET start == IF n > 0 THEN Max(Len(s) - n, 0) ELSE Min(-n, Len(s))
    IN  SubSeq(s, start + 1, Len(s))

\* python s[::-1]  (ReverseIdentity: the slice left out)
ReverseIdentity(s) == s

Reverse(s) == [i \in 1..Len(s) |-> s[Len(s) + 1 - i]]

\* lines 77-80, for the permutation p that argsort returned
\* (getTopKWordsNonZero: the zero entries left out of the result)
getTopKWordsNonZero(v, n, vocabulary, p) ==
    LET idx == SelectSeq(Reverse(TailSlice(p, n)), LAMBDA i : v[i] # 0)
    IN  [indices |-> idx,
         tfidfs  |-> [i \in 1..Len(idx) |-> v[idx[i]]],
         words   |-> [i \in 1..Len(idx) |-> vocabulary[idx[i]]]]

getTopKWords(v, n, vocabulary, p) ==
    LET idx == Reverse(TailSlice(p, n))
    IN  [indices |-> idx,
         tfidfs  |-> [i \in 1..Len(idx) |-> v[idx[i]]],
         words   |-> [i \in 1..Len(idx) |-> vocabulary[idx[i]]]]

TopKIdle ==
    /\ x = <<>> /\ k = 0 /\ words = <<>> /\ indices = <<>> /\ ret = None

\* a row and a configuration: the vector is dense over the vocabulary,
\* which a fitted CountVectorizerModel never has empty
TopKInit ==
    /\ \E n \in 1..MaxVocab :
          /\ x \in [1..n -> 0..MaxScore]
          /\ words \in InjectiveSeqs(Terms, n)
    /\ k \in (-MaxK)..MaxK
    /\ indices = <<>>
    /\ ret = None

\* one evaluation of topkwords_udf on a row (line 82)
TopKCall ==
    /\ ret = None
    /\ \E p \in Argsorts(x) :
          LET r == getTopKWords(x, k, words, p)
          IN  /\ indices' = r.indices
              /\ ret' = [tfidfs |-> r.tfidfs, words |-> r.words]
    /\ UNCHANGED <<x, k, words, driverVars, filterVars, tfidfVars, simVars, saveVars>>

----------------------------------------------------------------------------
(* The driver script, statement by statement                               *)

DriverTerms == {TermName[i] : i \in 1..MaxDriverVocab}

\* what a row's callback leaves in the column when vocab is not in the
\* pickled globals: python raises NameError inside the worker
NameError == [error |-> "NameError"]

DriverIdle ==
    /\ pc = "idle" /\ args = None /\ df = {} /\ topkwords = None
    /\ model = None /\ vocab = None /\ captured = None /\ top_words = <<>>

DriverInit ==
    /\ pc = "parse_args" /\ args = None /\ df = {} /\ topkwords = None
    /\ model = None /\ vocab = None /\ captured = None /\ top_words = <<>>

\* line 39: --nwords has type=int and no other check
ParseArgs ==
    /\ pc = "parse_args"
    /\ \E n \in (-MaxK)..MaxK : args' = [nwords |-> n]
    /\ pc' = "read"
    /\ UNCHANGED <<df, topkwords, model, vocab, captured, top_words, topkVars, filterVars, tfidfVars, simVars, saveVars>>

\* line 88: spark.read.json; the rows stand for the subreddits of the input
ReadJson ==
    /\ pc = "read"
    /\ \E n \in 1..MaxDocs : df' = 1..n
    /\ pc' = "construct"
    /\ UNCHANGED <<args, topkwords, model, vocab, captured, top_words, topkVars, filterVars, tfidfVars, simVars, saveVars>>

\* TopKWords.__init__ (lines 56-62): stores nwords as given
TopKWordsNewDefaulting(nwords) == [nwords |-> IF nwords <= 0 THEN 5 ELSE nwords]

TopKWordsNew(nwords) == [nwords |-> nwords]

\* lines 90-103: the stages and the Pipeline
Construct ==
    /\ pc = "construct"
    /\ topkwords' = TopKWordsNew(args.nwords)
    /\ pc' = "fit"
    /\ UNCHANGED <<args, df, model, vocab, captured, top_words, topkVars, filterVars, tfidfVars, simVars, saveVars>>

\* line 106: pipeline.fit(df).  The stages up to the last estimator (idf)
\* are fitted and run; topkwords comes after it and is only carried over,
\* so no top_words callback is built or run here.  The CountVectorizerModel
\* holds the vocabulary the corpus gave: some sequence of distinct terms.
Fit ==
    /\ pc = "fit"
    /\ \E n \in 1..MaxDriverVocab :
          \E v \in InjectiveSeqs(DriverTerms, n) : model' = [vocabulary |-> v]
    /\ pc' = "vocab"
    /\ UNCHANGED <<args, df, topkwords, vocab, captured, top_words, topkVars, filterVars, tfidfVars, simVars, saveVars>>

\* lines 107-109: vocab = vectorizers[0].vocabulary
ExtractVocab ==
    /\ pc = "vocab"
    /\ vocab' = [value |-> model.vocabulary]
    /\ pc' = "transform"
    /\ UNCHANGED <<args, df, topkwords, model, captured, top_words, topkVars, filterVars, tfidfVars, simVars, saveVars>>

\* lines 111-112: model.transform(df) calls TopKWords.transform (lines
\* 70-84), which builds topkwords_udf and applies it to col('tfidf'); that
\* pickles the callback with the globals it names, vocab as it is now.  The
\* column itself is lazy: no row is computed yet.
TransformCapturingNothing ==
    /\ pc = "transform"
    /\ captured' = None
    /\ top_words' = [d \in df |-> None]
    /\ pc' = "write"
    /\ UNCHANGED <<args, df, topkwords, model, vocab, topkVars, filterVars, tfidfVars, simVars, saveVars>>

Transform ==
    /\ pc = "transform"
    /\ captured' = vocab
    /\ top_words' = [d \in df |-> None]
    /\ pc' = "write"
    /\ UNCHANGED <<args, df, topkwords, model, vocab, topkVars, filterVars, tfidfVars, simVars, saveVars>>

\* line 117, one task of the write job: the row's tfidf (dense over the
\* fitted vocabulary) is computed and the callback runs on it with
\* k = self.nwords (line 82) and the pickled vocab (line 80).
Udf(d) ==
    /\ pc = "write"
    /\ top_words[d] = None
    /\ \E v \in [1..Len(model.vocabulary) -> 0..1] :
          \E p \in Argsorts(v) :
              top_words' = [top_words EXCEPT ![d] =
                  IF captured = None
                  THEN NameError
                  ELSE LET r == getTopKWords(v, topkwords.nwords, captured.value, p)
                       IN  [tfidfs |-> r.tfidfs, words |-> r.words,
                            vocab |-> captured.value]]
    /\ UNCHANGED <<pc, args, df, topkwords, model, vocab, captured, topkVars, filterVars, tfidfVars, simVars, saveVars>>

\* line 117 returns: every row of the table has been computed
SaveAsTable ==
    /\ pc = "write"
    /\ \A d \in df : top_words[d] # None
    /\ pc' = IF \E d \in df : top_words[d] = NameError THEN "failed" ELSE "done"
    /\ UNCHANGED <<args, df, topkwords, model, vocab, captured, top_words, topkVars, filterVars, tfidfVars, simVars, saveVars>>

----------------------------------------------------------------------------
(* The Filterer stage (transformers.py, constructed at line 92)            *)

Subreddits == {"sub1", "sub2", "sub3"}

\* lengths of comment bodies
Lengths == {5000, 35000, 55000}

\* --minlength, type=int (lines 32-33)
MinLengths == {0, 40000, 50000}

RECURSIVE SumSeq(_)
SumSeq(s) == IF s = <<>> THEN 0 ELSE Head(s) + SumSeq(Tail(s))

\* the aggregate the stage computes per key: the summed body length
TotalLength(c, g) == SumSeq(c[g])

\* the stage: the rows <<subreddit, i>> (the i-th comment of the subreddit)
\* of the groups whose total reaches the threshold
\* (FiltererPerComment: the threshold applied to each comment's own length)
FiltererPerComment(c, minlen) ==
    {r \in Subreddits \X (1..MaxComments) :
        r[2] \in DOMAIN c[r[1]] /\ c[r[1]][r[2]] >= minlen}

Filterer(c, minlen) ==
    LET keep == {g \in Subreddits : ~(TotalLength(c, g) < minlen)}
    IN  {r \in Subreddits \X (1..MaxComments) :
            r[1] \in keep /\ r[2] \in DOMAIN c[r[1]]}

FilterIdle == comments = <<>> /\ minlength = 0 /\ filtered = None

FilterInit ==
    /\ comments \in [Subreddits ->
            UNION {[1..n -> Lengths] : n \in 1..MaxComments}]
    /\ minlength \in MinLengths
    /\ filtered = None

FiltererTransform ==
    /\ filtered = None
    /\ filtered' = [rows |-> Filterer(comments, minlength)]
    /\ UNCHANGED <<comments, minlength, topkVars, driverVars, tfidfVars, simVars, saveVars>>

----------------------------------------------------------------------------
(* CountVectorizer (line 95) and IDF (line 96), pyspark.ml.feature, with   *)
(* the params the script sets and the library's defaults for the rest      *)

CvTerms == {"cat", "dog", "fish"}

\* occurrences of a term in one row's tokens
Counts == 0..2

\* --vocabsize, type=int (line 38)
VocabSizes == {1, 2}

\* --mindf, type=float (lines 36-37), as fractions: 1.0, 2.0, 0.75
MinDFs == {[num |-> 1, den |-> 1], [num |-> 2, den |-> 1], [num |-> 3, den |-> 4]}

RECURSIVE SumOver(_, _)
SumOver(f, S) ==
    IF S = {} THEN 0
    ELSE LET e == CHOOSE e \in S : TRUE IN f[e] + SumOver(f, S \ {e})

\* occurrences of a term in the whole corpus
TermCount(c, t) == SumOver([d \in DOMAIN c |-> c[d][t]], DOMAIN c)

\* rows that hold the term
DocFreq(c, t) == Cardinality({d \in DOMAIN c : c[d][t] > 0})

\* minDF: "if this is an integer >= 1, the number of documents the term must
\* appear in; if a double in [0,1), the fraction of documents"
\* (PassesMinDFAbsolute: the value always taken as a count)
PassesMinDFAbsolute(dfc, n, m) == dfc * m.den >= m.num

PassesMinDF(dfc, n, m) ==
    IF m.num >= m.den THEN dfc * m.den >= m.num
                      ELSE dfc * m.den >= m.num * n

\* CountVectorizer.fit: the terms that pass minDF, the vocabSize most
\* frequent of them by corpus count, most frequent first; which of several
\* equally frequent terms is taken, and in which order, is not fixed
Vocabularies(c, params) ==
    LET cands == {t \in CvTerms : /\ TermCount(c, t) > 0
                                 /\ PassesMinDF(DocFreq(c, t), Cardinality(DOMAIN c),
                                                params.minDF)}
        m == Min(Cardinality(cands), params.vocabSize)
    IN  {v \in InjectiveSeqs(cands, m) :
            /\ \A i, j \in 1..m : i < j => TermCount(c, v[i]) >= TermCount(c, v[j])
            /\ \A t \in cands \ Range(v) :
                  \A i \in 1..m : TermCount(c, v[i]) >= TermCount(c, t)}

\* fit raises when no term is left
EmptyVocabulary == [error |-> "The vocabulary size should be > 0"]

\* CountVectorizerModel.transform on one row (minTF = 1.0): the counts of
\* the vocabulary's terms, by vocabulary index
TermVector(row, vocabulary) == [i \in 1..Len(vocabulary) |-> row[vocabulary[i]]]

\* IDF.fit (minDocFreq = 0): log((m + 1) / (d(t) + 1)), m the number of
\* rows and d(t) the number of rows whose vector is positive at t.  The
\* weight is kept as that fraction, whose logarithm it is.
\* (IdfWeightUnsmoothedRows: m in the place of m + 1)
IdfWeightUnsmoothedRows(m, dt) == [num |-> m, den |-> dt + 1]

IdfWeight(m, dt) == [num |-> m + 1, den |-> dt + 1]

\* the sign of log(num / den)
IdfSign(w) == IF w.num > w.den THEN 1 ELSE IF w.num = w.den THEN 0 ELSE -1

\* IDFModel.transform on one entry: tf * idf, kept as the two factors
Scaled(count, w) == [tf |-> count, idf |-> w]

IsZero(e) == e.tf = 0 \/ IdfSign(e.idf) = 0

TfidfIdle ==
    /\ corpus = <<>> /\ cv = None /\ cvModel = None /\ tf = None
    /\ idfModel = None /\ tfidf = None

TfidfInit ==
    /\ \E n \in 1..MaxCvDocs : corpus \in [1..n -> [CvTerms -> Counts]]
    /\ cv \in [vocabSize : VocabSizes, minDF : MinDFs]
    /\ cvModel = None /\ tf = None /\ idfModel = None /\ tfidf = None

\* Pipeline.fit reaches cv: CountVectorizer.fit
CvFit ==
    /\ cvModel = None
    /\ \E v \in Vocabularies(corpus, cv) :
          cvModel' = IF v = <<>> THEN EmptyVocabulary ELSE [vocabulary |-> v]
    /\ UNCHANGED <<corpus, cv, tf, idfModel, tfidf, topkVars, driverVars, filterVars, simVars, saveVars>>

\* the fitted model's transform adds column tf
CvTransform ==
    /\ cvModel # None /\ cvModel # EmptyVocabulary /\ tf = None
    /\ tf' = [vectors |-> [d \in DOMAIN corpus |->
                              TermVector(corpus[d], cvModel.vocabulary)]]
    /\ UNCHANGED <<corpus, cv, cvModel, idfModel, tfidf, topkVars, driverVars, filterVars, simVars, saveVars>>

\* Pipeline.fit reaches idf: IDF.fit on column tf
IdfFit ==
    /\ tf # None /\ idfModel = None
    /\ idfModel' = [idf |-> [i \in 1..Len(cvModel.vocabulary) |->
            IdfWeight(Cardinality(DOMAIN tf.vectors),
                      Cardinality({d \in DOMAIN tf.vectors : tf.vectors[d][i] > 0}))]]
    /\ UNCHANGED <<corpus, cv, cvModel, tf, tfidf, topkVars, driverVars, filterVars, simVars, saveVars>>

\* the fitted model's transform adds column tfidf
IdfTransform ==
    /\ idfModel # None /\ tfidf = None
    /\ tfidf' = [vectors |-> [d \in DOMAIN tf.vectors |->
            [i \in 1..Len(cvModel.vocabulary) |->
                Scaled(tf.vectors[d][i], idfModel.idf[i])]]]
    /\ UNCHANGED <<corpus, cv, cvModel, tf, idfModel, topkVars, driverVars, filterVars, simVars, saveVars>>

----------------------------------------------------------------------------
(* The TopKSubreddits stage (transformers.py, constructed at lines 99-100) *)

\* the group keys, in lexicographic order: row i is subreddit GroupName[i]
GroupName == <<"sub1", "sub2", "sub3", "sub4", "sub5">>

\* the similarity relations over n rows: one score per unordered pair of
\* rows, read in either direction; a row's similarity to itself is 1.0, the
\* highest level
Similarities(n) ==
    LET pairs == {pr \in (1..n) \X (1..n) : pr[1] < pr[2]}
    IN  {[i \in 1..n |-> [j \in 1..n |->
              IF i = j THEN MaxSim
              ELSE u[<<Min(i, j), Max(i, j)>>]]] : u \in [pairs -> 0..MaxSim]}

\* a comes before b in g's ranking: higher score, then lower group key
RanksBefore(m, g, a, b) == m[g][a] > m[g][b] \/ (m[g][a] = m[g][b] /\ a < b)

Ranked(m, g, cands) ==
    CHOOSE s \in InjectiveSeqs(cands, Cardinality(cands)) :
        \A i, j \in DOMAIN s : i < j => RanksBefore(m, g, s[i], s[j])

\* the stage on row g: the n most similar other rows, as (key, score)
\* (TopSimilarWithSelf: the row itself left among the candidates)
TopSimilarWithSelf(m, g, n) ==
    LET s == Ranked(m, g, DOMAIN m)
    IN  [i \in 1..Min(n, Len(s)) |-> <<GroupName[s[i]], m[g][s[i]]>>]

TopSimilar(m, g, n) ==
    LET s == Ranked(m, g, DOMAIN m \ {g})
    IN  [i \in 1..Min(n, Len(s)) |-> <<GroupName[s[i]], m[g][s[i]]>>]

SimIdle == norm = <<>> /\ topksubreddits = None /\ top_subreddits = None

SimInit ==
    /\ \E n \in 1..MaxGroups : norm \in Similarities(n)
    /\ \E n \in 0..MaxSubs : topksubreddits = [nsubreddits |-> n]
    /\ top_subreddits = None

TopKSubredditsTransform ==
    /\ top_subreddits = None
    /\ top_subreddits' = [rows |-> [g \in DOMAIN norm |->
                             TopSimilar(norm, g, topksubreddits.nsubreddits)]]
    /\ UNCHANGED <<norm, topksubreddits, topkVars, driverVars, filterVars, tfidfVars, saveVars>>

----------------------------------------------------------------------------
(* The table write (lines 114-117), over successive runs of the script     *)

\* the characters of a --filepath; strings are sequences of characters.
\* No "." among them: the paths have no "." or ".." component.
PathChars == {"a", "-", "_", "/"}

Paths == UNION {[1..n -> PathChars] : n \in 1..MaxPathLen}

\* str.rfind("/"), 1-based: 0 when there is none
RFindSlash(s) ==
    LET at == {i \in DOMAIN s : s[i] = "/"}
    IN  IF at = {} THEN 0 ELSE CHOOSE i \in at : \A j \in at : j <= i

\* str.split("/")
RECURSIVE Split(_)
Split(s) ==
    LET i == RFindSlash(s)
    IN  IF i = 0 THEN <<s>>
        ELSE Append(Split(SubSeq(s, 1, i - 1)), SubSeq(s, i + 1, Len(s)))

\* "/".join(comps)
RECURSIVE Join(_)
Join(comps) ==
    IF Len(comps) = 0 THEN <<>>
    ELSE IF Len(comps) = 1 THEN comps[1]
    ELSE Join(SubSeq(comps, 1, Len(comps) - 1)) \o <<"/">> \o comps[Len(comps)]

StartsWith(s, n) == Len(s) >= n /\ \A i \in 1..n : s[i] = "/"

\* posixpath.normpath, for paths without "." and ".." components: empty
\* components dropped, one leading slash kept (two when there are exactly two)
normpath(path) ==
    LET initial_slashes ==
            IF ~StartsWith(path, 1) THEN 0
            ELSE IF StartsWith(path, 2) /\ ~StartsWith(path, 3) THEN 2 ELSE 1
        new_comps == SelectSeq(Split(path), LAMBDA comp : comp # <<>>)
        joined == [i \in 1..initial_slashes |-> "/"] \o Join(new_comps)
    IN  IF joined = <<>> THEN <<".">> ELSE joined

\* posixpath.basename: what follows the last slash
basename(path) == SubSeq(path, RFindSlash(path) + 1, Len(path))

\* str.translate(str.maketrans('', '', '-_'))  (line 115)
\* (translateDashOnly: '-' alone deleted)
translateDashOnly(s) == SelectSeq(s, LAMBDA c : c # "-")

translate(s) == SelectSeq(s, LAMBDA c : c \notin {"-", "_"})

\* lines 115-117: the table's name
TableName(filepath) == translate(basename(normpath(filepath)))

\* df.write.mode('overwrite'): the table holds the rows of this write alone
\* (WriteAppend: mode('append'))
WriteAppend(t, name, rows) ==
    [n \in DOMAIN t \cup {name} |->
        IF n = name THEN (IF n \in DOMAIN t THEN t[n] ELSE {}) \cup rows ELSE t[n]]

WriteOverwrite(t, name, rows) ==
    [n \in DOMAIN t \cup {name} |-> IF n = name THEN rows ELSE t[n]]

\* the rows a run writes, tagged with the run
Rows(r) == {[run |-> r, subreddit |-> "sub1"], [run |-> r, subreddit |-> "sub3"]}

\* the logical destination of a run: the last component of the file path
\* (trailing slashes aside) with every '-' and '_' removed
RECURSIVE StripSlashes(_)
StripSlashes(s) ==
    IF s # <<>> /\ s[Len(s)] = "/" THEN StripSlashes(SubSeq(s, 1, Len(s) - 1)) ELSE s

RECURSIVE WithoutDashes(_)
WithoutDashes(s) ==
    IF s = <<>> THEN <<>>
    ELSE (IF Head(s) \in {"-", "_"} THEN <<>> ELSE <<Head(s)>>) \o WithoutDashes(Tail(s))

Destination(filepath) ==
    LET q == StripSlashes(filepath)
    IN  WithoutDashes(SubSeq(q, RFindSlash(q) + 1, Len(q)))

\* no run yet, no table
SaveInit == run = None /\ nruns = 0 /\ tables = <<>> /\ written = <<>>

SaveIdle == SaveInit

\* a run of the script starts: line 39
StartRun ==
    /\ run = None /\ nruns < MaxRuns
    /\ \E path \in Paths : run' = [filepath |-> path]
    /\ nruns' = nruns + 1
    /\ UNCHANGED <<tables, written, topkVars, driverVars, filterVars, tfidfVars, simVars>>

\* lines 115-117 with a name Hive accepts
SaveRun ==
    /\ run # None
    /\ TableName(run.filepath) # <<>>
    /\ tables' = WriteOverwrite(tables, TableName(run.filepath), Rows(nruns))
    /\ written' = Append(written, [destination |-> Destination(run.filepath),
                                   rows |-> Rows(nruns)])
    /\ run' = None
    /\ UNCHANGED <<nruns, topkVars, driverVars, filterVars, tfidfVars, simVars>>

\* lines 115-117 with the empty name: saveAsTable raises, nothing is written
SaveRunFails ==
    /\ run # None
    /\ TableName(run.filepath) = <<>>
    /\ run' = None
    /\ UNCHANGED <<nruns, tables, written, topkVars, driverVars, filterVars, tfidfVars, simVars>>

----------------------------------------------------------------------------
(* Specifications *)

SpecTopKInit == TopKInit /\ DriverIdle /\ FilterIdle /\ TfidfIdle /\ SimIdle /\ SaveIdle

SpecTopKNext == TopKCall

SpecTopK == SpecTopKInit /\ [][SpecTopKNext]_vars

SpecDriverInit == DriverInit /\ TopKIdle /\ FilterIdle /\ TfidfIdle /\ SimIdle /\ SaveIdle

SpecDriverNext ==
    \/ ParseArgs
    \/ ReadJson
    \/ Construct
    \/ Fit
    \/ ExtractVocab
    \/ Transform
    \/ \E d \in 1..MaxDocs : d \in df /\ Udf(d)
    \/ SaveAsTable

SpecDriver == SpecDriverInit /\ [][SpecDriverNext]_vars

SpecFilterInit == FilterInit /\ TopKIdle /\ DriverIdle /\ TfidfIdle /\ SimIdle /\ SaveIdle

SpecFilterNext == FiltererTransform

SpecFilter == SpecFilterInit /\ [][SpecFilterNext]_vars

SpecTfidfInit == TfidfInit /\ TopKIdle /\ DriverIdle /\ FilterIdle /\ SimIdle /\ SaveIdle

SpecTfidfNext ==
    \/ CvFit
    \/ CvTransform
    \/ IdfFit
    \/ IdfTransform

SpecTfidf == SpecTfidfInit /\ [][SpecTfidfNext]_vars

SpecSimInit == SimInit /\ TopKIdle /\ DriverIdle /\ FilterIdle /\ TfidfIdle /\ SaveIdle

SpecSimNext == TopKSubredditsTransform

SpecSim == SpecSimInit /\ [][SpecSimNext]_vars

SpecSaveInit == SaveInit /\ TopKIdle /\ DriverIdle /\ FilterIdle /\ TfidfIdle /\ SimIdle

SpecSaveNext ==
    \/ StartRun
    \/ SaveRun
    \/ SaveRunFails

SpecSave == SpecSaveInit /\ [][SpecSaveNext]_vars

----------------------------------------------------------------------------
(* Properties of getTopKWords *)

NonZero(v) == {i \in DOMAIN v : v[i] # 0}

\* C1: for nwords >= 1 the top-words result is ordered by non-increasing
\* score, has at most nwords entries, and holds no word twice.
TopWordsSortedBoundedDistinct ==
    (ret # None /\ k >= 1) =>
        /\ \A i, j \in 1..Len(ret.tfidfs) : i < j => ret.tfidfs[i] >= ret.tfidfs[j]
        /\ Len(ret.words) <= k
        /\ Len(ret.tfidfs) = Len(ret.words)
        /\ \A i, j \in 1..Len(ret.words) : ret.words[i] = ret.words[j] => i = j

TopWordsSortedWitness ==
    /\ ret # None /\ k >= 2
    /\ Len(x) > k
    /\ Len(ret.words) = k
    /\ ret.tfidfs[1] > ret.tfidfs[2]

Selected == Range(indices)

PosOf(i) == CHOOSE n \in DOMAIN indices : indices[n] = i

\* C2 (as stated): two indices carrying the same score are taken lower index
\* first, both at the cut and in the order of the result.
TiesLowestIndexFirst ==
    (ret # None /\ k >= 1) =>
        \A a, b \in DOMAIN x :
            (a < b /\ x[a] = x[b] /\ b \in Selected) =>
                (a \in Selected /\ PosOf(a) < PosOf(b))

\* C2 (amended): two indices carrying different scores are taken higher
\* score first: the lower-scored one is selected only if the higher-scored
\* one is, and then comes later in the result.
HigherScoreFirst ==
    ret # None =>
        \A a, b \in DOMAIN x :
            (x[a] > x[b] /\ b \in Selected) =>
                (a \in Selected /\ PosOf(a) < PosOf(b))

\* a tie at the cut and a strict pair in the result
HigherScoreFirstWitness ==
    /\ ret # None /\ k >= 1
    /\ \E a, b \in DOMAIN x : a < b /\ x[a] = x[b] /\ b \in Selected /\ a \notin Selected
    /\ \E a, b \in Selected : x[a] > x[b]

\* C3 (as stated): a row with fewer than nwords non-zero entries gets the
\* empty result.
FewNonZeroGivesEmpty ==
    (ret # None /\ k >= 1 /\ Cardinality(NonZero(x)) < k) => ret.words = <<>>

\* C3 (amended): for nwords >= 1 the result has min(nwords, vocabulary size)
\* entries whatever the number of non-zero entries; zero-score words fill
\* the places the non-zero entries leave.
TopWordsLengthIsMin ==
    (ret # None /\ k >= 1) =>
        /\ Len(ret.words) = Min(k, Len(x))
        /\ Len(ret.tfidfs) = Min(k, Len(x))
        /\ Cardinality({n \in DOMAIN ret.tfidfs : ret.tfidfs[n] # 0})
               = Min(k, Cardinality(NonZero(x)))

TopWordsPaddedWitness ==
    /\ ret # None /\ k >= 2
    /\ Cardinality(NonZero(x)) = 1
    /\ Len(x) >= k
    /\ Len(ret.words) = k
    /\ ret.tfidfs[1] # 0 /\ ret.tfidfs[k] = 0

----------------------------------------------------------------------------
(* Properties of the driver script *)

Computed == {d \in DOMAIN top_words : top_words[d] # None}

\* C4 (as stated): a configuration with nwords <= 0 is rejected when the
\* pipeline is constructed; no top-words result is ever produced for it.
NonPositiveNwordsRejected ==
    (args # None /\ args.nwords <= 0) => (Computed = {} /\ pc # "done")

\* C4 (amended): a configuration with nwords <= 0 is not rejected: the
\* pipeline is constructed with it, and every row gets a top-words result,
\* the whole vocabulary for nwords = 0 and all but the |nwords| lowest
\* scoring words for nwords < 0.
NonPositiveNwordsAccepted ==
    (args # None /\ args.nwords <= 0) =>
        /\ pc = "construct" => ENABLED Construct
        /\ topkwords # None => topkwords.nwords = args.nwords
        /\ pc = "write" => \A d \in df : top_words[d] # None \/ ENABLED Udf(d)
        /\ \A d \in Computed :
              /\ top_words[d] # NameError
              /\ Len(top_words[d].words) =
                    Len(vocab.value) - Min(-args.nwords, Len(vocab.value))

NonPositiveNwordsWitness ==
    /\ pc = "done" /\ args.nwords < 0
    /\ \E d \in Computed : Len(top_words[d].words) = 1
    /\ Len(vocab.value) = 2

\* C5: vocab is assigned once, after the CountVectorizer is fitted and
\* before any top_words callback runs, and is not modified afterwards; every
\* callback reads that vocabulary, never an unassigned or a different one.
VocabAssignedOnceBeforeCallbacks ==
    /\ [](vocab # None => (model # None /\ vocab.value = model.vocabulary))
    /\ [][vocab # None => vocab' = vocab]_vars
    /\ [](\A d \in Computed :
            /\ top_words[d] # NameError
            /\ vocab # None
            /\ top_words[d].vocab = vocab.value)

VocabAssignedWitness ==
    /\ pc = "done"
    /\ Cardinality(df) >= 2
    /\ \A d \in df : d \in Computed /\ top_words[d].vocab = model.vocabulary
    /\ Len(vocab.value) >= 2

----------------------------------------------------------------------------
(* Properties of the Filterer *)

GroupRows(g) == {r \in filtered.rows : r[1] = g}

\* C6: a subreddit's comments pass the Filterer if and only if the summed
\* length of all its comments is at least minlength: then all of them pass,
\* whatever their own length, and otherwise none.  Totals of 60000, 40000
\* and 70000 under minlength 50000 leave the first and the third subreddit.
FiltererIsGroupGate ==
    filtered # None =>
        /\ \A g \in Subreddits :
              /\ TotalLength(comments, g) >= minlength =>
                    GroupRows(g) = {g} \X DOMAIN comments[g]
              /\ TotalLength(comments, g) < minlength => GroupRows(g) = {}
        /\ ( /\ minlength = 50000
             /\ TotalLength(comments, "sub1") = 60000
             /\ TotalLength(comments, "sub2") = 40000
             /\ TotalLength(comments, "sub3") = 70000 )
           => {r[1] : r \in filtered.rows} = {"sub1", "sub3"}

FiltererWitness ==
    /\ filtered # None
    /\ minlength = 50000
    /\ comments["sub1"] = <<5000, 55000>>
    /\ comments["sub2"] = <<5000, 35000>>
    /\ comments["sub3"] = <<35000, 35000>>
    /\ <<"sub1", 1>> \in filtered.rows
    /\ <<"sub3", 2>> \in filtered.rows

----------------------------------------------------------------------------
(* Properties of the CountVectorizer and IDF stages *)

Fitted == cvModel # None /\ cvModel # EmptyVocabulary

NumDocs == Cardinality(DOMAIN corpus)

\* mindf as the specification reads it: a count when >= 1, else a fraction
\* of the number of documents
MeetsMinDF(t) ==
    IF cv.minDF.num >= cv.minDF.den
    THEN DocFreq(corpus, t) * cv.minDF.den >= cv.minDF.num
    ELSE DocFreq(corpus, t) * cv.minDF.den >= cv.minDF.num * NumDocs

\* C7: the vocabulary has at most vocabsize terms, each occurring in at
\* least mindf documents; a term that misses either bound is in no
\* document's term vector: the vectors hold the vocabulary's terms only.
VocabularyWithinBounds ==
    Fitted =>
        /\ Len(cvModel.vocabulary) <= cv.vocabSize
        /\ \A i \in DOMAIN cvModel.vocabulary : MeetsMinDF(cvModel.vocabulary[i])
        /\ \A t \in CvTerms :
              (\/ ~MeetsMinDF(t)
               \/ Cardinality({w \in CvTerms : MeetsMinDF(w) /\
                      TermCount(corpus, w) > TermCount(corpus, t)}) >= cv.vocabSize)
                 => t \notin Range(cvModel.vocabulary)
        /\ tf # None =>
              \A d \in DOMAIN corpus :
                 /\ DOMAIN tf.vectors[d] = 1..Len(cvModel.vocabulary)
                 /\ \A i \in DOMAIN tf.vectors[d] :
                       tf.vectors[d][i] = corpus[d][cvModel.vocabulary[i]]

VocabularyWitness ==
    /\ Fitted /\ tf # None
    /\ cv.vocabSize = 1 /\ cv.minDF.num < cv.minDF.den
    /\ NumDocs = 2
    /\ \E t \in CvTerms : TermCount(corpus, t) > 0 /\ ~MeetsMinDF(t)
    /\ \E t \in CvTerms : MeetsMinDF(t) /\ t \notin Range(cvModel.vocabulary)

\* C8 (as stated): every vocabulary term's IDF weight is strictly positive,
\* also when the term is in every document; a term with a non-zero count in
\* a document has a non-zero TF-IDF score there.
IdfStrictlyPositive ==
    /\ idfModel # None =>
          \A i \in DOMAIN idfModel.idf : IdfSign(idfModel.idf[i]) = 1
    /\ tfidf # None =>
          \A d \in DOMAIN tfidf.vectors : \A i \in DOMAIN tfidf.vectors[d] :
              tf.vectors[d][i] # 0 => ~IsZero(tfidf.vectors[d][i])

\* C8 (amended): every vocabulary term's IDF weight is non-negative, and it
\* is zero exactly for a term that occurs in every document; a term with a
\* non-zero count in a document has a non-zero TF-IDF score there exactly
\* when some document lacks the term.
IdfZeroIffInEveryDoc ==
    /\ idfModel # None =>
          \A i \in DOMAIN idfModel.idf :
              /\ IdfSign(idfModel.idf[i]) >= 0
              /\ IdfSign(idfModel.idf[i]) = 0
                    <=> DocFreq(corpus, cvModel.vocabulary[i]) = NumDocs
    /\ tfidf # None =>
          \A d \in DOMAIN tfidf.vectors : \A i \in DOMAIN tfidf.vectors[d] :
              tf.vectors[d][i] # 0 =>
                  (IsZero(tfidf.vectors[d][i])
                      <=> DocFreq(corpus, cvModel.vocabulary[i]) = NumDocs)

IdfZeroWitness ==
    /\ tfidf # None /\ NumDocs = 2
    /\ \E d \in DOMAIN tfidf.vectors : \E i, j \in DOMAIN tfidf.vectors[d] :
          /\ tf.vectors[d][i] # 0 /\ IsZero(tfidf.vectors[d][i])
          /\ tf.vectors[d][j] # 0 /\ ~IsZero(tfidf.vectors[d][j])

----------------------------------------------------------------------------
(* Properties of the TopKSubreddits stage *)

Keys(s) == {s[i][1] : i \in DOMAIN s}

\* C9: a row's top-similar result never holds the row's own key, has at
\* most nsubreddits entries, and has fewer only when fewer other rows
\* exist; with two rows and nsubreddits >= 1 each lists the other.
TopSimilarExcludesSelf ==
    top_subreddits # None =>
        \A g \in DOMAIN norm :
            LET r == top_subreddits.rows[g]
                n == topksubreddits.nsubreddits
                others == Cardinality(DOMAIN norm) - 1
            IN  /\ GroupName[g] \notin Keys(r)
                /\ Len(r) <= n
                /\ Len(r) < n => (Len(r) = others /\ others < n)
                /\ (others = 1 /\ n >= 1) =>
                      Keys(r) = {GroupName[h] : h \in DOMAIN norm \ {g}}

TopSimilarWitness ==
    /\ top_subreddits # None
    /\ Cardinality(DOMAIN norm) = 3
    /\ topksubreddits.nsubreddits = 1
    /\ norm[1][2] = 0 /\ norm[1][3] = 1
    /\ top_subreddits.rows[1] = <<<<"sub3", 1>>>>

----------------------------------------------------------------------------
(* Properties of the table write *)

WritesTo(d) == {i \in DOMAIN written : written[i].destination = d}

LastWriteTo(d) == CHOOSE i \in WritesTo(d) : \A j \in WritesTo(d) : j <= i

====
